---------------------------- MODULE Spec2Model ----------------------------
(***************************************************************************)
(* Model of install_bindist.py:                                            *)
(*                                                                         *)
(*   os.makedirs(sys.argv[2], exist_ok=True)                               *)
(*   shutil.copy(sys.argv[3], os.path.join(sys.argv[2], sys.argv[4]))      *)
(*   for f in sys.argv[5:]:                                                *)
(*       shutil.copy(os.path.join(sys.argv[1], f),                         *)
(*                   os.path.join(sys.argv[2], f))                         *)
(*                                                                         *)
(* The script runs on a POSIX filesystem, modelled as a tree of            *)
(* directories and regular files (no symbolic or hard links, no            *)
(* permissions, no quota).  The library calls are modelled by the system   *)
(* calls they make: os.makedirs probes for the deepest existing ancestor   *)
(* and then issues one mkdir per missing component; shutil.copy checks     *)
(* isdir(dst) and samefile(src, dst), opens the source, opens the          *)
(* destination with O_CREAT|O_TRUNC, and writes the source's bytes at      *)
(* offset 0.  Each process (an invocation of the script) is a sequence of  *)
(* such steps.                                                             *)
(***************************************************************************)
EXTENDS Naturals, Sequences, FiniteSets, TLC

VARIABLES
    fs,      \* the filesystem: resolved path -> node, for the paths that exist
    argv,    \* argv[p]: the argument vector of process p
    pc,      \* pc[p]: where process p is in the script
    i,       \* i[p]: the copy in progress: 0 = line 6, n >= 1 = n-th pass of the loop
    k,       \* k[p]: inside os.makedirs, the depth of the next mkdir
    src,     \* src[p]: the file the open source descriptor refers to
    dst,     \* dst[p]: the destination path string shutil.copy settled on
    out,     \* out[p]: the file the open destination descriptor refers to
    runs,    \* runs[p]: how the invocations of p ended, one record each
    log,     \* history: log[p], the library calls the invocation of p completed
    fs0,     \* history: the filesystem before the first invocation
    fs1,     \* history: the filesystem when the first invocation ended
    lastw    \* history: written file -> the bytes of the latest completed write to it

vars == <<fs, argv, pc, i, k, src, dst, out, runs, log, fs0, fs1, lastw>>

---------------------------------------------------------------------------
(* Bounds *)

\* longest extra_files list of a sequential invocation
MaxExtra == 2
\* longest extra_files list of each of two concurrent invocations
MaxExtraConc == 1
\* invocations in sequence with the same arguments
MaxRuns == 2

Procs == {1, 2}

---------------------------------------------------------------------------
(* Paths.  A resolved path is the sequence of names from the root; a path  *)
(* string (an argument, or the result of os.path.join) is a record saying  *)
(* whether it starts with "/" and listing its components, ".." included.   *)

Root == <<>>
Cwd == Root

Abs(comps) == [abs |-> TRUE, comps |-> comps]
Rel(comps) == [abs |-> FALSE, comps |-> comps]
NoStr == Rel(<<>>)

Parent(q) == IF q = Root THEN Root ELSE SubSeq(q, 1, Len(q) - 1)
Prefix(q, n) == SubSeq(q, 1, n)
IsPrefix(a, b) == Len(a) <= Len(b) /\ Prefix(b, Len(a)) = a

\* posixpath.join(a, b): b alone when b is absolute, else a "/" b
Join(a, b) == IF b.abs THEN b ELSE [abs |-> a.abs, comps |-> a.comps \o b.comps]

\* posixpath.basename(a): what follows the last "/"
Basename(a) ==
    Rel(IF a.comps = <<>> THEN <<>> ELSE <<a.comps[Len(a.comps)]>>)

---------------------------------------------------------------------------
(* Filesystem nodes and lookups *)

DirNode == [dir |-> TRUE, data |-> <<>>]
FileNode(bytes) == [dir |-> FALSE, data |-> bytes]

Exists(f, q) == q = Root \/ q \in DOMAIN f
IsDir(f, q) == q = Root \/ (q \in DOMAIN f /\ f[q].dir)
IsFile(f, q) == q \in DOMAIN f /\ ~f[q].dir

\* every node but the root lies in a directory
WellFormed(f) == \A q \in DOMAIN f : q # Root /\ IsDir(f, Parent(q))

\* Path resolution by the kernel: each component is looked up in the
\* directory reached so far, ".." steps to the parent; the walk fails when
\* it has to pass through something that is not a directory.
RECURSIVE Walk(_, _, _)
Walk(f, cur, comps) ==
    IF comps = <<>> THEN [ok |-> TRUE, path |-> cur]
    ELSE IF ~IsDir(f, cur) THEN [ok |-> FALSE, path |-> cur]
    ELSE IF Head(comps) = ".." THEN Walk(f, Parent(cur), Tail(comps))
    ELSE Walk(f, Append(cur, Head(comps)), Tail(comps))

Resolve(f, a) == Walk(f, IF a.abs THEN Root ELSE Cwd, a.comps)

\* os.path.isdir, os.path.exists, os.path.samefile (False on a stat error)
PathIsDir(f, a) == Resolve(f, a).ok /\ IsDir(f, Resolve(f, a).path)
PathExists(f, a) == Resolve(f, a).ok /\ Exists(f, Resolve(f, a).path)
SameFile(f, a, b) ==
    /\ PathExists(f, a)
    /\ PathExists(f, b)
    /\ Resolve(f, a).path = Resolve(f, b).path

\* open(a, 'rb') succeeds on an existing regular file
CanOpenRead(f, a) == Resolve(f, a).ok /\ IsFile(f, Resolve(f, a).path)

\* open(a, 'wb') succeeds when the parent is a directory and a is not one
CanOpenWrite(f, a) ==
    /\ Resolve(f, a).ok
    /\ Resolve(f, a).path # Root
    /\ ~IsDir(f, Resolve(f, a).path)
    /\ IsDir(f, Parent(Resolve(f, a).path))

\* faulty variant: the destination is opened without O_TRUNC
Truncate_NoTrunc(f, q) == IF q \in DOMAIN f THEN f ELSE (q :> FileNode(<<>>)) @@ f

\* the file after O_CREAT|O_TRUNC: it exists and is empty
Truncate(f, q) == (q :> FileNode(<<>>)) @@ f

\* faulty variant: the destination is opened with O_APPEND
Overwrite_Append(old, bytes) == old \o bytes

\* the bytes of a file after `bytes` is written at offset 0
Overwrite(old, bytes) == bytes \o SubSeq(old, Len(bytes) + 1, Len(old))

\* the file q after the write
WriteAt(f, q, bytes) == (q :> FileNode(Overwrite(f[q].data, bytes))) @@ f

\* mkdir(q) succeeded
MakeDir(f, q) == (q :> DirNode) @@ f

---------------------------------------------------------------------------
(* The argument vector (sys.argv[1:]) *)

source_dir(p) == argv[p].source_dir
dest_dir(p) == argv[p].dest_dir
main_src_path(p) == argv[p].main_src_path
main_dest_name(p) == argv[p].main_dest_name
extra_files(p) == argv[p].extra_files

\* faulty variant: os.makedirs without exist_ok
ExistOk_False == FALSE

\* exist_ok of line 5
ExistOk == TRUE

\* faulty variant: the loop walks extra_files from its end
CopySrc_Reversed(p) ==
    IF i[p] = 0 THEN main_src_path(p)
    ELSE Join(source_dir(p), extra_files(p)[Len(extra_files(p)) + 1 - i[p]])

\* faulty variant: every copy is written to dest_dir/main_dest_name
CopyDst_MainName(p) == Join(dest_dir(p), main_dest_name(p))

\* faulty variant: the copies are written under source_dir
CopyDst_IntoSource(p) ==
    IF i[p] = 0 THEN Join(source_dir(p), main_dest_name(p))
    ELSE Join(source_dir(p), extra_files(p)[i[p]])

\* line 6 (i = 0) and line 9 (i >= 1): the two arguments of shutil.copy
CopySrc(p) ==
    IF i[p] = 0 THEN main_src_path(p)
    ELSE Join(source_dir(p), extra_files(p)[i[p]])

CopyDst(p) ==
    IF i[p] = 0 THEN Join(dest_dir(p), main_dest_name(p))
    ELSE Join(dest_dir(p), extra_files(p)[i[p]])

\* shutil.copy: "if os.path.isdir(dst): dst = os.path.join(dst, basename(src))"
CopyTarget(f, s, d) == IF PathIsDir(f, d) THEN Join(d, Basename(s)) ELSE d

\* the leading n components of a path string
StrPrefix(a, n) == [abs |-> a.abs, comps |-> Prefix(a.comps, n)]

\* faulty variant: os.mkdir in place of os.makedirs
FirstMkdir_Last(f, a) == Len(a.comps)

\* os.makedirs recurses on the head of the path while it does not exist: the
\* first mkdir is for the component below the deepest existing ancestor
FirstMkdir(f, a) ==
    LET have == {n \in 0..(Len(a.comps) - 1) : PathExists(f, StrPrefix(a, n))}
    IN  1 + CHOOSE n \in have : \A m \in have : m <= n

\* the calls of lines 5, 6 and 9 with their arguments, as the log records them
MakedirsCall(p) == [op |-> "makedirs", src |-> NoStr, dst |-> dest_dir(p)]
CopyCall(p) == [op |-> "copy", src |-> CopySrc(p), dst |-> CopyDst(p)]

---------------------------------------------------------------------------
(* Process steps *)

\* The invocation of p ends: exit status 0 ("done") or an uncaught exception
\* and a non-zero exit status ("failed").
End(p, how, f) ==
    /\ pc' = [pc EXCEPT ![p] = how]
    /\ runs' = [runs EXCEPT ![p] = Append(@, [how |-> how, at |-> pc[p]])]
    /\ fs1' = IF runs[p] = <<>> THEN f ELSE fs1

\* faulty variant: a failure undoes what the invocation did
Fail_Rollback(p) ==
    /\ End(p, "failed", fs0)
    /\ fs' = fs0
    /\ UNCHANGED <<argv, i, k, src, dst, out, log, fs0, lastw>>

Fail(p) ==
    /\ End(p, "failed", fs)
    /\ UNCHANGED <<fs, argv, i, k, src, dst, out, log, fs0, lastw>>

\* line 5, first half: os.makedirs looks for the deepest existing ancestor
MakedirsProbe(p) ==
    /\ pc[p] = "makedirs"
    /\ k' = [k EXCEPT ![p] = FirstMkdir(fs, dest_dir(p))]
    /\ pc' = [pc EXCEPT ![p] = "mkdir"]
    /\ UNCHANGED <<fs, argv, i, src, dst, out, runs, log, fs0, fs1, lastw>>

\* line 5, second half: one mkdir system call, for the k-th prefix of dest_dir.
\* EEXIST on an intermediate component is swallowed ("except FileExistsError:
\* pass"); on dest_dir itself it is swallowed only if exist_ok and the path is a
\* directory.  Any other error propagates.
Mkdir(p) ==
    /\ pc[p] = "mkdir"
    /\ LET name == StrPrefix(dest_dir(p), k[p])
           r == Resolve(fs, name)
           last == k[p] = Len(dest_dir(p).comps)
           advance == /\ pc' = [pc EXCEPT ![p] = IF last THEN "copy" ELSE "mkdir"]
                      /\ k' = [k EXCEPT ![p] = IF last THEN @ ELSE @ + 1]
                      /\ i' = [i EXCEPT ![p] = 0]
                      /\ log' = [log EXCEPT ![p] =
                                    IF last THEN Append(@, MakedirsCall(p)) ELSE @]
                      /\ UNCHANGED <<argv, src, dst, out, runs, fs0, fs1, lastw>>
       IN  IF ~r.ok
           THEN Fail(p)
           ELSE IF Exists(fs, r.path)
           THEN IF last /\ (~ExistOk \/ ~IsDir(fs, r.path))
                THEN Fail(p)
                ELSE advance /\ fs' = fs
           ELSE advance /\ fs' = MakeDir(fs, r.path)

\* faulty variant: a source that cannot be opened is skipped
CopyBegin_SkipMissing(p) ==
    /\ pc[p] = "copy"
    /\ LET s == CopySrc(p)
           d == CopyTarget(fs, s, CopyDst(p))
       IN  IF SameFile(fs, s, d)
           THEN Fail(p)
           ELSE IF ~CanOpenRead(fs, s)
           THEN /\ IF i[p] < Len(extra_files(p))
                   THEN /\ i' = [i EXCEPT ![p] = @ + 1]
                        /\ UNCHANGED <<pc, runs, fs1>>
                   ELSE /\ End(p, "done", fs)
                        /\ UNCHANGED i
                /\ UNCHANGED <<fs, argv, k, src, dst, out, log, fs0, lastw>>
           ELSE /\ src' = [src EXCEPT ![p] = Resolve(fs, s).path]
                /\ dst' = [dst EXCEPT ![p] = d]
                /\ pc' = [pc EXCEPT ![p] = "open_dst"]
                /\ UNCHANGED <<fs, argv, i, k, out, runs, log, fs0, fs1, lastw>>

\* shutil.copy up to the open of the source: the isdir(dst) test, the
\* samefile test (SameFileError), open(src, 'rb')
CopyBegin(p) ==
    /\ pc[p] = "copy"
    /\ LET s == CopySrc(p)
           d == CopyTarget(fs, s, CopyDst(p))
       IN  IF SameFile(fs, s, d) \/ ~CanOpenRead(fs, s)
           THEN Fail(p)
           ELSE /\ src' = [src EXCEPT ![p] = Resolve(fs, s).path]
                /\ dst' = [dst EXCEPT ![p] = d]
                /\ pc' = [pc EXCEPT ![p] = "open_dst"]
                /\ UNCHANGED <<fs, argv, i, k, out, runs, log, fs0, fs1, lastw>>

\* open(dst, 'wb'): the file is created or truncated
CopyOpenDst(p) ==
    /\ pc[p] = "open_dst"
    /\ IF ~CanOpenWrite(fs, dst[p])
       THEN Fail(p)
       ELSE /\ fs' = Truncate(fs, Resolve(fs, dst[p]).path)
            /\ out' = [out EXCEPT ![p] = Resolve(fs, dst[p]).path]
            /\ pc' = [pc EXCEPT ![p] = "write"]
            /\ UNCHANGED <<argv, i, k, src, dst, runs, log, fs0, fs1, lastw>>

\* the bytes of the source are written to the destination descriptor, both are
\* closed, and the script moves on: the next pass of the loop, or the end
CopyWrite(p) ==
    /\ pc[p] = "write"
    /\ LET bytes == fs[src[p]].data
           f == WriteAt(fs, out[p], bytes)
       IN  /\ fs' = f
           /\ lastw' = (out[p] :> bytes) @@ lastw
           /\ log' = [log EXCEPT ![p] = Append(@, CopyCall(p))]
           /\ IF i[p] < Len(extra_files(p))
              THEN /\ i' = [i EXCEPT ![p] = @ + 1]
                   /\ pc' = [pc EXCEPT ![p] = "copy"]
                   /\ UNCHANGED <<runs, fs1>>
              ELSE /\ End(p, "done", f)
                   /\ UNCHANGED i
    /\ UNCHANGED <<argv, k, src, dst, out, fs0>>

\* the caller invokes the script again with the same arguments
Rerun(p) ==
    /\ pc[p] \in {"done", "failed"}
    /\ Len(runs[p]) < MaxRuns
    /\ pc' = [pc EXCEPT ![p] = "makedirs"]
    /\ i' = [i EXCEPT ![p] = 0]
    /\ k' = [k EXCEPT ![p] = 0]
    /\ src' = [src EXCEPT ![p] = Root]
    /\ dst' = [dst EXCEPT ![p] = NoStr]
    /\ out' = [out EXCEPT ![p] = Root]
    /\ log' = [log EXCEPT ![p] = <<>>]
    /\ UNCHANGED <<fs, argv, runs, fs0, fs1, lastw>>

Step(p) ==
    \/ MakedirsProbe(p)
    \/ Mkdir(p)
    \/ CopyBegin(p)
    \/ CopyOpenDst(p)
    \/ CopyWrite(p)

Next == \E p \in Procs : Step(p)

NextRerun == \E p \in Procs : Step(p) \/ Rerun(p)

---------------------------------------------------------------------------
(* Initial filesystems and argument vectors *)

A == <<"a">>
BB == <<"b", "b">>
C == <<"c">>
Old == <<"o", "l", "d">>

S == <<"s">>
P == <<"p">>
PD == <<"p", "d">>

SeqsUpTo(X, n) == UNION {[1..m -> X] : m \in 0..n}

Opt(present, q, node) == IF present THEN q :> node ELSE [x \in {} |-> node]

\* /s with g, and optionally f and m; /x; and a destination region /p, /p/d,
\* /p/d/f, /p/d/h in which each path is absent, a file or a directory
\* ("dirm": the directory /p/d/f holding a file m)
BuildFS(sf, sm, p, pd, pdf, pdh) ==
    (S :> DirNode) @@ (<<"s", "g">> :> FileNode(BB)) @@ (<<"x">> :> FileNode(Old))
    @@ Opt(sf, <<"s", "f">>, FileNode(A))
    @@ Opt(sm, <<"s", "m">>, FileNode(C))
    @@ Opt(p = "file", P, FileNode(Old))
    @@ Opt(p = "dir", P, DirNode)
    @@ Opt(p = "dir" /\ pd = "file", PD, FileNode(Old))
    @@ Opt(p = "dir" /\ pd = "dir", PD, DirNode)
    @@ Opt(p = "dir" /\ pd = "dir" /\ pdf = "file", <<"p", "d", "f">>, FileNode(Old))
    @@ Opt(p = "dir" /\ pd = "dir" /\ pdf \in {"dir", "dirm"}, <<"p", "d", "f">>, DirNode)
    @@ Opt(p = "dir" /\ pd = "dir" /\ pdf = "dirm", <<"p", "d", "f", "m">>, FileNode(Old))
    @@ Opt(p = "dir" /\ pd = "dir" /\ pdh = "file", <<"p", "d", "h">>, FileNode(Old))

Kinds == {"absent", "file", "dir"}

InitialFS ==
    {BuildFS(sf, sm, p, pd, pdf, pdh) :
        sf \in BOOLEAN, sm \in BOOLEAN, p \in Kinds, pd \in Kinds,
        pdf \in Kinds \cup {"dirm"}, pdh \in {"absent", "file"}}

SourceDirs == {Abs(S), Abs(PD)}
DestDirs == {Abs(P), Abs(PD)}
MainSrcPaths == {Abs(<<"s", "m">>), Abs(<<"p", "d", "f">>)}
MainDestNames == {Rel(<<"m">>), Rel(<<"f">>), Abs(<<"s", "g">>), Rel(<<"..", "x">>)}
ExtraNames == {Rel(<<"f">>), Rel(<<"g">>), Rel(<<"..", "x">>)}

ArgVectors(n) ==
    [source_dir : SourceDirs, dest_dir : DestDirs, main_src_path : MainSrcPaths,
     main_dest_name : MainDestNames, extra_files : SeqsUpTo(ExtraNames, n)]

\* one invocation (process 1); process 2 never starts
Init ==
    /\ fs \in InitialFS
    /\ fs0 = fs
    /\ fs1 = fs
    /\ \E a \in ArgVectors(MaxExtra) : argv = [p \in Procs |-> a]
    /\ pc = [p \in Procs |-> IF p = 1 THEN "makedirs" ELSE "idle"]
    /\ i = [p \in Procs |-> 0]
    /\ k = [p \in Procs |-> 0]
    /\ src = [p \in Procs |-> Root]
    /\ dst = [p \in Procs |-> NoStr]
    /\ out = [p \in Procs |-> Root]
    /\ runs = [p \in Procs |-> <<>>]
    /\ log = [p \in Procs |-> <<>>]
    /\ lastw = [x \in {} |-> <<>>]

\* a single invocation
Spec == Init /\ [][Next]_vars

\* the same invocation repeated
SpecRerun == Init /\ [][NextRerun]_vars

\* Two invocations at once into the same dest_dir, which is absent, empty or
\* holds a file f.  Both take their extra files from /s; the first installs
\* /s/m as its main artifact, the second /s/g.
ConcFS ==
    {BuildFS(TRUE, TRUE, p, pd, pdf, "absent") :
        p \in {"absent", "dir"}, pd \in {"absent", "dir"}, pdf \in {"absent", "file"}}

ConcNames == {Rel(<<"m">>), Rel(<<"f">>)}
ConcExtras == SeqsUpTo({Rel(<<"f">>), Rel(<<"g">>)}, MaxExtraConc)

InitConc ==
    /\ fs \in ConcFS
    /\ fs0 = fs
    /\ fs1 = fs
    /\ \E d \in DestDirs, n1 \in ConcNames, n2 \in ConcNames,
          e1 \in ConcExtras, e2 \in ConcExtras :
          argv = [p \in Procs |->
                    [source_dir |-> Abs(S), dest_dir |-> d,
                     main_src_path |-> IF p = 1 THEN Abs(<<"s", "m">>) ELSE Abs(<<"s", "g">>),
                     main_dest_name |-> IF p = 1 THEN n1 ELSE n2,
                     extra_files |-> IF p = 1 THEN e1 ELSE e2]]
    /\ pc = [p \in Procs |-> "makedirs"]
    /\ i = [p \in Procs |-> 0]
    /\ k = [p \in Procs |-> 0]
    /\ src = [p \in Procs |-> Root]
    /\ dst = [p \in Procs |-> NoStr]
    /\ out = [p \in Procs |-> Root]
    /\ runs = [p \in Procs |-> <<>>]
    /\ log = [p \in Procs |-> <<>>]
    /\ lastw = [x \in {} |-> <<>>]

\* two concurrent invocations, their steps interleaved in any order
SpecConc == InitConc /\ [][Next]_vars

TypeOK ==
    /\ WellFormed(fs)
    /\ \A p \in Procs : pc[p] \in {"idle", "makedirs", "mkdir", "copy", "open_dst", "write", "done", "failed"}

---------------------------------------------------------------------------
(* Vocabulary of the properties, read off the argument vector alone *)

\* the copies of an invocation: 0 is the main artifact, j >= 1 is extra_files[j]
Copies(p) == 0..Len(extra_files(p))
SrcStr(p, j) ==
    IF j = 0 THEN main_src_path(p) ELSE Join(source_dir(p), extra_files(p)[j])
DstName(p, j) == IF j = 0 THEN main_dest_name(p) ELSE extra_files(p)[j]
DstStr(p, j) == Join(dest_dir(p), DstName(p, j))

Ended(p) == pc[p] \in {"done", "failed"}
Copying(p) == pc[p] \in {"copy", "open_dst", "write"}

\* dest_dir and its ancestors, as resolved paths
DestPath(p) == dest_dir(p).comps
DestChain(p) == {Prefix(DestPath(p), n) : n \in 1..Len(DestPath(p))}

\* no component of dest_dir is occupied by a non-directory
DestCreatable(f, p) == \A q \in DestChain(p) : q \in DOMAIN f => f[q].dir

\* the filesystem once dest_dir and its missing ancestors are made
WithDest(f, p) == [q \in DestChain(p) \ DOMAIN f |-> DirNode] @@ f

\* the bytes a path string names, when it names a regular file
NoFile == <<"no such file">>
Content(f, a) == IF CanOpenRead(f, a) THEN f[Resolve(f, a).path].data ELSE NoFile

AllSourcesExist(f, p) == \A j \in Copies(p) : CanOpenRead(f, SrcStr(p, j))

\* where copy j writes: the destination path, or inside it when it is a directory
Target(f, p, j) == Resolve(f, CopyTarget(f, SrcStr(p, j), DstStr(p, j)))

\* a name of one plain component
PlainName(a) == ~a.abs /\ Len(a.comps) = 1 /\ a.comps[1] # ".."
PlainNames(p) == \A j \in Copies(p) : PlainName(DstName(p, j))

\* strictly inside dest_dir
Inside(p, q) == IsPrefix(DestPath(p), q) /\ q # DestPath(p)

---------------------------------------------------------------------------
(* C1 *)

\* C1 as claimed: whenever all sources exist and dest_dir can be made, the run
\* leaves main_src_path's bytes in dest_dir/main_dest_name and the bytes of
\* source_dir/f in dest_dir/f for every f of extra_files.
C1_AsClaimed ==
    (Ended(1) /\ AllSourcesExist(fs0, 1) /\ DestCreatable(fs0, 1))
        => \A j \in Copies(1) : Content(fs, DstStr(1, j)) = Content(fs0, SrcStr(1, j))

\* every destination is a place a file can be written at, and none is a source
C1_Pre ==
    /\ AllSourcesExist(fs0, 1)
    /\ DestCreatable(fs0, 1)
    /\ \A j \in Copies(1) :
          /\ CanOpenWrite(WithDest(fs0, 1), DstStr(1, j))
          /\ \A j2 \in Copies(1) :
                Resolve(WithDest(fs0, 1), DstStr(1, j)).path
                    # Resolve(fs0, SrcStr(1, j2)).path

\* the last copy whose destination is that of copy j
LastTo(p, j) ==
    LET same == {j2 \in Copies(p) :
                    Resolve(WithDest(fs0, p), DstStr(p, j2)).path
                        = Resolve(WithDest(fs0, p), DstStr(p, j)).path}
    IN  CHOOSE j2 \in same : \A j3 \in same : j3 <= j2

\* C1, amended: when all sources exist, dest_dir can be made, and no destination
\* is an existing directory or one of the sources, the run exits 0 and every
\* destination holds the bytes of the source of the last copy made to it: each
\* dest_dir/f holds source_dir/f, and dest_dir/main_dest_name holds
\* main_src_path unless an extra file has the same destination.
C1_LastCopyWins ==
    (Ended(1) /\ C1_Pre)
        => /\ pc[1] = "done"
           /\ \A j \in Copies(1) :
                 Content(fs, DstStr(1, j)) = Content(fs0, SrcStr(1, LastTo(1, j)))

\* a finished run in which an extra file name equals main_dest_name and a name
\* is repeated in extra_files
C1_Witness ==
    /\ pc[1] = "done"
    /\ C1_Pre
    /\ Len(extra_files(1)) = 2
    /\ extra_files(1)[1] = extra_files(1)[2]
    /\ extra_files(1)[1] = main_dest_name(1)
    /\ Content(fs, DstStr(1, 0)) # Content(fs0, SrcStr(1, 0))

---------------------------------------------------------------------------
(* C2 *)

\* dest_dir and what lies in it
DestView(f, p) == [q \in {r \in DOMAIN f : IsPrefix(DestPath(p), r)} |-> f[q]]

\* C2 as claimed: after a second (or later) invocation with the same arguments
\* dest_dir holds the files and contents the first invocation left.
C2_AsClaimed ==
    (Ended(1) /\ Len(runs[1]) >= 2) => DestView(fs, 1) = DestView(fs1, 1)

\* the files the invocation reads, as far as their paths resolve
SourcePaths(p) ==
    {Resolve(fs, SrcStr(p, j)).path :
        j \in {j2 \in Copies(p) : Resolve(fs, SrcStr(p, j2)).ok}}

\* C2, amended: if none of the files the invocations wrote is main_src_path or
\* a source_dir/f, every later invocation leaves the whole filesystem as the
\* first one left it, and ends with the exit status of the first.
C2_Idempotent ==
    (Ended(1) /\ Len(runs[1]) >= 2 /\ SourcePaths(1) \cap DOMAIN lastw = {})
        => /\ fs = fs1
           /\ runs[1][Len(runs[1])].how = runs[1][1].how

\* two successful invocations whose main_src_path lies inside dest_dir
C2_Witness ==
    /\ pc[1] = "done"
    /\ Len(runs[1]) = 2
    /\ SourcePaths(1) \cap DOMAIN lastw = {}
    /\ Inside(1, main_src_path(1).comps)
    /\ DestView(fs, 1) # DestView(fs0, 1)

---------------------------------------------------------------------------
(* C3 *)

\* the invocation of p stopped inside os.makedirs
FailedInMakedirs(p) ==
    pc[p] = "failed" /\ runs[p][Len(runs[p])].at = "mkdir"

\* the name of q relative to dest_dir
NameIn(p, q) == Rel(SubSeq(q, Len(DestPath(p)) + 1, Len(q)))

ArgNames(p) == {DstName(p, j) : j \in Copies(p)}

\* the regular files dest_dir held, at any depth, before the invocation
OldFiles(p) == {q \in DOMAIN fs0 : Inside(p, q) /\ ~fs0[q].dir}

\* C3 as claimed: with dest_dir an existing directory, os.makedirs does not
\* fail, and every file dest_dir held whose name is neither main_dest_name nor
\* in extra_files is still there, unchanged.
C3_AsClaimed ==
    IsDir(fs0, DestPath(1))
        => /\ ~FailedInMakedirs(1)
           /\ \A q \in OldFiles(1) :
                 NameIn(1, q) \notin ArgNames(1) => q \in DOMAIN fs /\ fs[q] = fs0[q]

\* the files the copies write to, given the directories that exist
Targets0(p) ==
    LET f == WithDest(fs0, p)
    IN  {Target(f, p, j).path : j \in {j2 \in Copies(p) : Target(f, p, j2).ok}}

\* C3, amended: with dest_dir an existing directory, os.makedirs does not fail,
\* nothing dest_dir held is deleted, and every file it held is unchanged unless
\* it is the file a copy writes to: dest_dir/main_dest_name or dest_dir/f, or,
\* where that path is a directory, the entry in it with the source's basename.
C3_Unrelated ==
    IsDir(fs0, DestPath(1))
        => /\ ~FailedInMakedirs(1)
           /\ \A q \in DOMAIN fs0 : Inside(1, q) => q \in DOMAIN fs
           /\ LET written == Targets0(1)
              IN  \A q \in OldFiles(1) : q \notin written => fs[q] = fs0[q]

\* a successful run into a directory holding a file that stays as it was and
\* one that is overwritten
C3_Witness ==
    /\ pc[1] = "done"
    /\ IsDir(fs0, DestPath(1))
    /\ \E q \in OldFiles(1) : q \notin Targets0(1) /\ fs[q] = fs0[q]
    /\ \E q \in OldFiles(1) : fs[q] # fs0[q]

---------------------------------------------------------------------------
(* C4 *)

Extras(p) == 1..Len(extra_files(p))

\* C4: an invocation that exits 0 has copied every entry of extra_files, and
\* the file each entry names exists under source_dir; so when an entry names
\* a file that does not exist there, the invocation cannot exit 0.
C4_MissingExtraFails ==
    pc[1] = "done"
        => \A j \in Extras(1) :
              /\ CanOpenRead(fs, SrcStr(1, j))
              /\ Target(fs, 1, j).path \in DOMAIN lastw
              /\ log[1][j + 2] = [op |-> "copy", src |-> SrcStr(1, j), dst |-> DstStr(1, j)]

\* the second entry of extra_files names a missing file: the first entry was
\* copied, and the run failed at the second
C4_Witness ==
    /\ pc[1] = "failed"
    /\ Len(extra_files(1)) = 2
    /\ i[1] = 2
    /\ ~PathExists(fs, SrcStr(1, 2))
    /\ Len(log[1]) = 3

---------------------------------------------------------------------------
(* C5 *)

\* the calls an invocation has completed once os.makedirs and the copies
\* 0 .. n-1 are done
CallsUpTo(p, n) ==
    <<[op |-> "makedirs", src |-> NoStr, dst |-> dest_dir(p)]>>
        \o [j \in 1..n |-> [op |-> "copy", src |-> SrcStr(p, j - 1), dst |-> DstStr(p, j - 1)]]

\* C5: a failed invocation (non-zero exit status) has removed nothing.  If it
\* failed inside os.makedirs it has copied nothing.  If it failed at copy i,
\* dest_dir exists, exactly the copies before i have been made, in order, and
\* the files they wrote hold what was last written to them; nothing after i
\* was attempted.  With main_src_path missing (i = 0) dest_dir exists and no
\* file was copied.
C5_StopsAtFirstFailure ==
    pc[1] = "failed"
        => /\ \A q \in DOMAIN fs0 : q \in DOMAIN fs
           /\ runs[1][1].at = "mkdir" => log[1] = <<>> /\ DOMAIN lastw = {}
           /\ runs[1][1].at # "mkdir"
                 => /\ IsDir(fs, DestPath(1))
                    /\ log[1] = CallsUpTo(1, i[1])
                    /\ DOMAIN lastw = {Target(fs, 1, j).path : j \in 0..(i[1] - 1)}
                    /\ \A q \in DOMAIN lastw : fs[q] = FileNode(lastw[q])

\* main_src_path is missing: dest_dir, absent before, has been made, and the
\* extra files, which all exist, were not copied
C5_Witness ==
    /\ pc[1] = "failed"
    /\ ~PathExists(fs0, main_src_path(1))
    /\ ~Exists(fs0, DestPath(1))
    /\ IsDir(fs, DestPath(1))
    /\ Len(extra_files(1)) = 2
    /\ \A j \in Extras(1) : CanOpenRead(fs0, SrcStr(1, j))
    /\ \A j \in Extras(1) : ~PathExists(fs, DstStr(1, j))

---------------------------------------------------------------------------
(* C6 *)

\* dest_dir was absent, or an empty directory, before the invocation
AbsentOrEmpty0(p) ==
    \/ ~Exists(fs0, DestPath(p))
    \/ IsDir(fs0, DestPath(p)) /\ \A q \in DOMAIN fs0 : ~Inside(p, q)

\* what dest_dir holds, by name relative to dest_dir
Holds(f, p) == {NameIn(p, q) : q \in {r \in DOMAIN f : Inside(p, r)}}

\* C6 as claimed: after a successful run into an absent or empty dest_dir, the
\* names in dest_dir are main_dest_name and the entries of extra_files, all
\* regular files, and nothing else.
C6_AsClaimed ==
    (pc[1] = "done" /\ AbsentOrEmpty0(1))
        => /\ Holds(fs, 1) = ArgNames(1)
           /\ \A q \in DOMAIN fs : Inside(1, q) => ~fs[q].dir

\* C6, amended: the same, for invocations whose main_dest_name and extra file
\* names are plain file names (one component, not "..", no "/").
C6_ExactlyTheNames ==
    (pc[1] = "done" /\ AbsentOrEmpty0(1) /\ PlainNames(1))
        => /\ Holds(fs, 1) = ArgNames(1)
           /\ \A q \in DOMAIN fs : Inside(1, q) => ~fs[q].dir

\* the scenario of the specification: a main artifact and two extra files,
\* three names, three files
C6_Witness ==
    /\ pc[1] = "done"
    /\ ~Exists(fs0, DestPath(1))
    /\ PlainNames(1)
    /\ Cardinality(ArgNames(1)) = 3
    /\ Cardinality(Holds(fs, 1)) = 3

---------------------------------------------------------------------------
(* C7 *)

\* os.makedirs has returned
MakedirsDone(p) ==
    Copying(p) \/ pc[p] = "done" \/ (pc[p] = "failed" /\ ~FailedInMakedirs(p))

\* C7: when no component of dest_dir is occupied by a non-directory,
\* os.makedirs does not fail, and once it has returned dest_dir and all its
\* ancestors are directories; when a component is occupied by a non-directory,
\* the invocation never gets past os.makedirs: it creates nothing and copies
\* nothing, and if it has ended it has failed.
C7_MakedirsCreatesAll ==
    /\ DestCreatable(fs0, 1) => ~FailedInMakedirs(1)
    /\ MakedirsDone(1) => \A q \in DestChain(1) : IsDir(fs, q)
    /\ ~DestCreatable(fs0, 1)
          => /\ pc[1] \in {"makedirs", "mkdir", "failed"}
             /\ fs = fs0
             /\ log[1] = <<>>
             /\ DOMAIN lastw = {}

\* dest_dir and its parent were both missing, and os.makedirs has made both
C7_Witness ==
    /\ pc[1] = "copy"
    /\ Len(DestPath(1)) = 2
    /\ \A q \in DestChain(1) : ~Exists(fs0, q)
    /\ \A q \in DestChain(1) : IsDir(fs, q)

---------------------------------------------------------------------------
(* C8 *)

\* C8: while a copy is in progress and after any copy, dest_dir is a
\* directory; nothing is copied before os.makedirs has returned; while copy i
\* is in progress the completed calls are exactly os.makedirs, then the main
\* artifact, then extra_files[1..i-1] in argument order, and the open
\* descriptors are those of copy i; after exit 0 all copies are done, in order.
C8_Order ==
    /\ (Copying(1) \/ Len(log[1]) >= 2) => IsDir(fs, DestPath(1))
    /\ pc[1] \in {"makedirs", "mkdir"} => log[1] = <<>> /\ DOMAIN lastw = {}
    /\ Copying(1) => log[1] = CallsUpTo(1, i[1])
    /\ pc[1] \in {"open_dst", "write"} => src[1] = Resolve(fs, SrcStr(1, i[1])).path
    /\ pc[1] = "write" => out[1] = Target(fs, 1, i[1]).path
    /\ pc[1] = "done" => log[1] = CallsUpTo(1, Len(extra_files(1)) + 1)

\* the second of two different extra files is being written, into a dest_dir
\* the invocation made
C8_Witness ==
    /\ pc[1] = "write"
    /\ i[1] = 2
    /\ extra_files(1)[1] # extra_files(1)[2]
    /\ ~Exists(fs0, DestPath(1))

---------------------------------------------------------------------------
(* C9 *)

\* the regular files, before or now, that are neither dest_dir nor inside it
FilesOutside(p) ==
    {q \in DOMAIN fs0 \cup DOMAIN fs :
        /\ ~IsPrefix(DestPath(p), q)
        /\ (q \in DOMAIN fs0 /\ ~fs0[q].dir) \/ (q \in DOMAIN fs /\ ~fs[q].dir)}

Untouched(q) == q \in DOMAIN fs0 /\ q \in DOMAIN fs /\ fs[q] = fs0[q]

\* C9 as claimed: no file outside dest_dir is created or modified, and
\* main_src_path and the files of source_dir keep their content.
C9_AsClaimed ==
    /\ \A q \in FilesOutside(1) : Untouched(q)
    /\ \A j \in Copies(1) : Content(fs, SrcStr(1, j)) = Content(fs0, SrcStr(1, j))
    /\ \A q \in DOMAIN fs0 : Parent(q) = source_dir(1).comps => Untouched(q)

\* C9, amended: when main_dest_name and every extra file name is a plain file
\* name, no file outside dest_dir is created or modified; so main_src_path and
\* the files of source_dir keep their content if they lie outside dest_dir.
C9_Confined ==
    PlainNames(1)
        => /\ \A q \in FilesOutside(1) : Untouched(q)
           /\ \A j \in Copies(1) :
                 (Resolve(fs, SrcStr(1, j)).ok
                     /\ ~IsPrefix(DestPath(1), Resolve(fs, SrcStr(1, j)).path))
                     => Content(fs, SrcStr(1, j)) = Content(fs0, SrcStr(1, j))

\* a successful run with plain names that wrote inside a directory of dest_dir
C9_Witness ==
    /\ pc[1] = "done"
    /\ PlainNames(1)
    /\ Len(extra_files(1)) = 2
    /\ \E q \in DOMAIN lastw : Len(q) = Len(DestPath(1)) + 2

---------------------------------------------------------------------------
(* C10 *)

BothEnded == \A p \in Procs : Ended(p)

BytesFor(q) ==
    {Content(fs0, SrcStr(p, j)) :
        <<p, j>> \in {pj \in Procs \X (0..MaxExtraConc + 1) :
                        /\ pj[2] \in Copies(pj[1])
                        /\ Target(fs, pj[1], pj[2]).path = q}}

===========================================================================
